---- MODULE Spec2Model ----
(***************************************************************************)
(* Model of src/app.js (Weather Vue): the forecast summariser and its      *)
(* renderer, the relative-time and weather-code helpers, and the search    *)
(* workflow (loadWeather) with its two awaited network calls.              *)
(*                                                                         *)
(* Time is counted in hours since 2024-01-01T00:00Z (a Monday) wherever    *)
(* calendar days matter, and in milliseconds in formatRelativeTime.        *)
(***************************************************************************)
EXTENDS Integers, Sequences, FiniteSets, TLC

VARIABLES
    daily,        \* the "daily" section of the forecast payload
    viewerTz,     \* UTC offset (hours) of the browser that runs the script
    utcOffset,    \* UTC offset (hours) of the forecast location (payload)
    phase,        \* position of the pure-function drivers
    result,       \* value returned by summariseForecast
    grid,         \* elements.forecastGrid: [cards, raised]
    diffInMs,     \* date.getTime() - Date.now() in formatRelativeTime
    relative,     \* value returned by formatRelativeTime: [unit, value]
    code,         \* weather code handed to the two mapping functions
    emoji,        \* value returned by getWeatherEmoji
    description,  \* value returned by getWeatherDescription
    cityInput,    \* cityInput.value
    status,       \* statusMessage: [text, error, by]
    display,      \* current-conditions card and forecast grid
    searches      \* one record per loadWeather call, in call order

sumVars == <<daily, viewerTz, utcOffset, result, grid>>
relVars == <<diffInMs, relative>>
condVars == <<code, emoji, description>>
appVars == <<cityInput, status, display, searches>>
vars == <<phase, sumVars, relVars, condVars, appVars>>

----------------------------------------------------------------------------
(* Bounds *)

\* longest time column of a daily payload
MaxLen == 3
\* longest time column handed to renderForecast
MaxDays == 2
\* weather codes -CodeRange..CodeRange are mapped, and FarCode
CodeRange == 1000
FarCode == 9999
\* loadWeather calls in one run, the initial one included
MaxSearches == 3
\* milliseconds enumerated on each side of a threshold of formatRelativeTime
RelSpread == 4

----------------------------------------------------------------------------
(* JavaScript values *)

\* the value undefined (a field read past the end of an array)
Undefined == [def |-> FALSE, v |-> 0]
Num(n) == [def |-> TRUE, v |-> n]

\* a payload member that is missing or not an array
NotArray == [isArray |-> FALSE, items |-> <<>>]
Arr(s) == [isArray |-> TRUE, items |-> s]

\* Array.isArray(x) ? x : []
ArrayOrEmpty(col) == IF col.isArray THEN col.items ELSE <<>>

\* variant: the zero-based index used as a one-based position
JsIndexOffByOne(arr, index) ==
    IF index \in 1..Len(arr) THEN arr[index] ELSE Undefined

\* arr[index] for a zero-based index: undefined past the end
JsIndex(arr, index) ==
    IF index + 1 \in 1..Len(arr) THEN arr[index + 1] ELSE Undefined

----------------------------------------------------------------------------
(* Timestamps as the payload writes them *)

\* "2024-01-DD": a date-only ISO string
DateOnly(d) == [kind |-> "date", day |-> d, hour |-> 0]
\* "2024-01-DDTHH:00": an ISO string without a zone designator
LocalTime(d, h) == [kind |-> "local", day |-> d, hour |-> h]
\* "2024-01-DDTHH:00Z"
UtcTime(d, h) == [kind |-> "utc", day |-> d, hour |-> h]
\* a string Date cannot parse
BadTime == [kind |-> "bad", day |-> 0, hour |-> 0]

InvalidDate == [valid |-> FALSE, t |-> 0]
Instant(t) == [valid |-> TRUE, t |-> t]

\* new Date(time): a date-only string is UTC midnight, a string without a
\* zone is wall-clock time of the browser, an unparseable one is Invalid Date
NewDate(time, tz) ==
    CASE time.kind = "date" -> Instant((time.day - 1) * 24)
      [] time.kind = "utc" -> Instant((time.day - 1) * 24 + time.hour)
      [] time.kind = "local" -> Instant((time.day - 1) * 24 + time.hour - tz)
      [] OTHER -> InvalidDate

----------------------------------------------------------------------------
(* summariseForecast *)

\* variant: the two temperature columns exchanged
DayEntrySwapped(time, index, weatherCodes, maxTemps, minTemps, tz) ==
    [date |-> NewDate(time, tz),
     weathercode |-> JsIndex(weatherCodes, index),
     max |-> JsIndex(minTemps, index),
     min |-> JsIndex(maxTemps, index)]

\* the object built for one element of the time column
DayEntry(time, index, weatherCodes, maxTemps, minTemps, tz) ==
    [date |-> NewDate(time, tz),
     weathercode |-> JsIndex(weatherCodes, index),
     max |-> JsIndex(maxTemps, index),
     min |-> JsIndex(minTemps, index)]

\* times.map((time, index) => ({...}))
MapEntries(times, weatherCodes, maxTemps, minTemps, tz) ==
    [i \in 1..Len(times) |->
        DayEntry(times[i], i - 1, weatherCodes, maxTemps, minTemps, tz)]

\* (a, b) => a.date - b.date is a consistent comparator only when no date
\* is Invalid Date (the difference is then NaN)
ConsistentComparator(entries) ==
    \A i \in 1..Len(entries) : entries[i].date.valid

\* variant: b.date - a.date
CompareDatesReversed(a, b) == b.date.t - a.date.t

\* a.date - b.date
CompareDates(a, b) == a.date.t - b.date.t

\* insertion of e behind every element that does not compare greater
InsertStable(e, sorted) ==
    LET later == {i \in 1..Len(sorted) : CompareDates(sorted[i], e) > 0}
        pos == IF later = {} THEN Len(sorted) + 1
               ELSE CHOOSE i \in later : \A j \in later : i <= j
    IN SubSeq(sorted, 1, pos - 1) \o <<e>> \o SubSeq(sorted, pos, Len(sorted))

RECURSIVE StableSort(_)
StableSort(entries) ==
    IF entries = <<>> THEN <<>>
    ELSE InsertStable(entries[Len(entries)],
                      StableSort(SubSeq(entries, 1, Len(entries) - 1)))

Permutations1(n) ==
    {p \in [1..n -> 1..n] : \A i, j \in 1..n : i # j => p[i] # p[j]}

Rearrangements(entries) ==
    {[i \in 1..Len(entries) |-> entries[p[i]]] : p \in Permutations1(Len(entries))}

\* variant: the mapped array returned without sorting
SortByDateOmitted(entries) == {entries}

\* Array.prototype.sort: stable under a consistent comparator; with an
\* inconsistent one the order is implementation-defined
SortByDate(entries) ==
    IF ConsistentComparator(entries) THEN {StableSort(entries)}
    ELSE Rearrangements(entries)

\* the set of values summariseForecast(daily) can return
SummariseForecast(d, tz) ==
    LET times == ArrayOrEmpty(d.time)
        weatherCodes == ArrayOrEmpty(d.weathercode)
        maxTemps == ArrayOrEmpty(d.temperature_2m_max)
        minTemps == ArrayOrEmpty(d.temperature_2m_min)
    IN SortByDate(MapEntries(times, weatherCodes, maxTemps, minTemps, tz))

----------------------------------------------------------------------------
(* capitalizeFirstLetter, on texts kept as first character and rest *)

Text(first, rest) == [first |-> first, rest |-> rest]
EmptyText == Text("", "")

\* String.prototype.toUpperCase on one character
ToUpperCase(c) ==
    CASE c = "i" -> "I"
      [] c = "c" -> "C"
      [] c = "s" -> "S"
      [] OTHER -> c

CapitalizeFirstLetter(text) ==
    IF text = EmptyText THEN EmptyText
    ELSE Text(ToUpperCase(text.first), text.rest)

----------------------------------------------------------------------------
(* getWeatherEmoji and getWeatherDescription *)

\* a default parameter replaces undefined by 0
DefaultCode(c) == IF c.def THEN c.v ELSE 0

\* the if-chain of getWeatherEmoji, in order
WeatherEmojis ==
    << <<{0}, "sun">>,
       <<{1, 2, 3}, "sun behind cloud">>,
       <<{45, 48}, "fog">>,
       <<{51, 53, 55, 56, 57}, "sun behind rain cloud">>,
       <<{61, 63, 65}, "rain cloud">>,
       <<{66, 67}, "rain cloud">>,
       <<{71, 73, 75, 77}, "snowflake">>,
       <<{80, 81, 82}, "rain cloud">>,
       <<{85, 86}, "snowflake">>,
       <<{95, 96, 99}, "thunder cloud">> >>

\* variant: code 77 (snow grains) left out of the description table
WeatherDescriptionsWithout77 ==
    << <<{0}, "Clear sky">>, <<{1}, "Mainly clear">>,
       <<{2}, "Partly cloudy">>, <<{3}, "Overcast">>, <<{45}, "Fog">>,
       <<{48}, "Depositing rime fog">>, <<{51}, "Light drizzle">>,
       <<{53}, "Moderate drizzle">>, <<{55}, "Dense drizzle">>,
       <<{56}, "Light freezing drizzle">>,
       <<{57}, "Dense freezing drizzle">>, <<{61}, "Slight rain">>,
       <<{63}, "Moderate rain">>, <<{65}, "Heavy rain">>,
       <<{66}, "Light freezing rain">>, <<{67}, "Heavy freezing rain">>,
       <<{71}, "Slight snowfall">>, <<{73}, "Moderate snowfall">>,
       <<{75}, "Heavy snowfall">>,
       <<{80}, "Slight rain showers">>, <<{81}, "Moderate rain showers">>,
       <<{82}, "Violent rain showers">>, <<{85}, "Slight snow showers">>,
       <<{86}, "Heavy snow showers">>, <<{95}, "Thunderstorm">>,
       <<{96}, "Thunderstorm with light hail">>,
       <<{99}, "Thunderstorm with heavy hail">> >>

\* the entries of the descriptions Map, in insertion order
WeatherDescriptions ==
    << <<{0}, "Clear sky">>, <<{1}, "Mainly clear">>,
       <<{2}, "Partly cloudy">>, <<{3}, "Overcast">>, <<{45}, "Fog">>,
       <<{48}, "Depositing rime fog">>, <<{51}, "Light drizzle">>,
       <<{53}, "Moderate drizzle">>, <<{55}, "Dense drizzle">>,
       <<{56}, "Light freezing drizzle">>,
       <<{57}, "Dense freezing drizzle">>, <<{61}, "Slight rain">>,
       <<{63}, "Moderate rain">>, <<{65}, "Heavy rain">>,
       <<{66}, "Light freezing rain">>, <<{67}, "Heavy freezing rain">>,
       <<{71}, "Slight snowfall">>, <<{73}, "Moderate snowfall">>,
       <<{75}, "Heavy snowfall">>, <<{77}, "Snow grains">>,
       <<{80}, "Slight rain showers">>, <<{81}, "Moderate rain showers">>,
       <<{82}, "Violent rain showers">>, <<{85}, "Slight snow showers">>,
       <<{86}, "Heavy snow showers">>, <<{95}, "Thunderstorm">>,
       <<{96}, "Thunderstorm with light hail">>,
       <<{99}, "Thunderstorm with heavy hail">> >>

\* the value of the first entry whose code list includes c, else fallback
FirstMatch(table, c, fallback) ==
    LET hits == {i \in 1..Len(table) : c \in table[i][1]}
    IN IF hits = {} THEN fallback
       ELSE table[CHOOSE i \in hits : \A j \in hits : i <= j][2]

GetWeatherEmoji(c) == FirstMatch(WeatherEmojis, DefaultCode(c), "cloud")

GetWeatherDescription(c) ==
    FirstMatch(WeatherDescriptions, DefaultCode(c), "Unknown conditions")

----------------------------------------------------------------------------
(* formatRelativeTime *)

Abs(x) == IF x < 0 THEN -x ELSE x

\* variant: the quotient rounded down instead of to the nearest integer
MathFloor(n, d) == n \div d

\* Math.round(n / d) for d > 0: the nearest integer, halves towards +infinity
MathRound(n, d) == (2 * n + d) \div (2 * d)

\* the unit and the count handed to Intl.RelativeTimeFormat.format
FormatRelativeTime(diff) ==
    LET minutes == MathRound(diff, 1000 * 60)
        hours == MathRound(diff, 1000 * 60 * 60)
        days == MathRound(diff, 1000 * 60 * 60 * 24)
    IN IF Abs(diff) < 45 * 1000 THEN [unit |-> "just now", value |-> 0]
       ELSE IF Abs(minutes) < 60 THEN [unit |-> "minute", value |-> minutes]
       ELSE IF Abs(hours) < 24 THEN [unit |-> "hour", value |-> hours]
       ELSE [unit |-> "day", value |-> days]

----------------------------------------------------------------------------
(* formatWeekday and renderForecast *)

WeekdayNames ==
    <<Text("M", "onday"), Text("T", "uesday"), Text("W", "ednesday"),
      Text("T", "hursday"), Text("F", "riday"), Text("S", "aturday"),
      Text("S", "unday")>>

\* Intl.DateTimeFormat("en-US", {weekday: "long"}).format(date) for a valid
\* date: the weekday in the browser's zone (hour 0 is a Monday)
FormatWeekday(date, tz) == WeekdayNames[(((date.t + tz) \div 24) % 7) + 1]

\* Math.round of a number-or-undefined (NaN for undefined)
RoundValue(x) == IF x.def THEN Num(MathRound(x.v, 1)) ELSE Undefined

\* the article appended for one day; index is zero-based
ForecastCard(day, index, tz) ==
    [heading |-> IF index = 0 THEN Text("T", "oday")
                 ELSE CapitalizeFirstLetter(FormatWeekday(day.date, tz)),
     icon |-> GetWeatherEmoji(day.weathercode),
     high |-> RoundValue(day.max),
     low |-> RoundValue(day.min),
     desc |-> GetWeatherDescription(day.weathercode)]

\* one-based positions at which formatWeekday raises a RangeError
RaisingPositions(days) == {i \in 2..Len(days) : ~days[i].date.valid}

EmptyGrid == [cards |-> <<>>, placeholder |-> FALSE, raised |-> FALSE]

\* summariseForecast(daily).slice(0, 5)
FirstFive(days) == SubSeq(days, 1, IF Len(days) < 5 THEN Len(days) ELSE 5)

\* the forecast grid renderForecast leaves behind for the sorted days: the
\* placeholder, or the cards appended before the first raising position
RenderGrid(allDays, tz) ==
    LET days == FirstFive(allDays)
        raising == RaisingPositions(days)
        last == IF raising = {} THEN Len(days)
                ELSE (CHOOSE i \in raising : \A j \in raising : i <= j) - 1
    IN IF days = <<>>
       THEN [cards |-> <<>>, placeholder |-> TRUE, raised |-> FALSE]
       ELSE [cards |-> [i \in 1..last |-> ForecastCard(days[i], i - 1, tz)],
             placeholder |-> FALSE,
             raised |-> raising # {}]

----------------------------------------------------------------------------
(* Payloads the drivers enumerate *)

SeqsUpTo(S, n) == UNION {[1..k -> S] : k \in 0..n}

\* the first n values of a column that repeats base
Column(base, n) ==
    IF n < 0 THEN NotArray
    ELSE Arr([i \in 1..n |-> Num(base[((i - 1) % Len(base)) + 1])])

\* providers' value columns: the spec's scenario, and unrelated min and max
ValueTables ==
    {[weathercode |-> <<3, 3, 0>>, max |-> <<10, 10, 5>>, min |-> <<2, 2, -1>>],
     [weathercode |-> <<0, 3, 3>>, max |-> <<5, 10, 2>>, min |-> <<7, 2, 2>>]}

SummaryTimes ==
    {LocalTime(1, 0), LocalTime(1, 12), LocalTime(2, 0), DateOnly(2), BadTime}

ViewerOffsets == {-5, 9}

\* lengths of the three value columns (-1: missing or not an array): all
\* full, all missing, or one column cut short while the others are full
ColumnLengths(n) ==
    {<<n, n, n>>, <<-1, -1, -1>>}
        \cup {<<x, n, n>> : x \in -1..(n - 1)}
        \cup {<<n, x, n>> : x \in -1..(n - 1)}
        \cup {<<n, n, x>> : x \in -1..(n - 1)}

DailyPayloads(times, n) ==
    {[time |-> t,
      weathercode |-> Column(tb.weathercode, len[1]),
      temperature_2m_max |-> Column(tb.max, len[2]),
      temperature_2m_min |-> Column(tb.min, len[3])] :
        t \in {NotArray} \cup {Arr(s) : s \in SeqsUpTo(times, n)},
        tb \in ValueTables, len \in ColumnLengths(n)}

EmptyDaily ==
    [time |-> NotArray, weathercode |-> NotArray,
     temperature_2m_max |-> NotArray, temperature_2m_min |-> NotArray]

----------------------------------------------------------------------------
(* The search workflow: submit handler, loadWeather, fetchLocation,        *)
(* fetchForecast, fetchJson, renderCurrentWeather                          *)

\* a string or undefined
NoString == [def |-> FALSE, v |-> ""]
Str(x) == [def |-> TRUE, v |-> x]

\* a ?? b
Coalesce(a, b) == IF a.def THEN a ELSE b

RECURSIVE TrimStart(_)
TrimStart(q) == IF q # <<>> /\ Head(q) = " " THEN TrimStart(Tail(q)) ELSE q

RECURSIVE TrimEnd(_)
TrimEnd(q) ==
    IF q # <<>> /\ q[Len(q)] = " " THEN TrimEnd(SubSeq(q, 1, Len(q) - 1))
    ELSE q

\* variant: the query used as typed
TrimOmitted(q) == q

\* String.prototype.trim on a sequence of characters
Trim(q) == TrimEnd(TrimStart(q))

\* what the user can type: nothing, whitespace, and two cities
Queries == {<<>>, <<" ">>, <<"P">>, <<" ", "L", " ">>}

\* first result of the geocoding service for a trimmed query
GeocodingResult(query) ==
    IF "P" \in {query[i] : i \in 1..Len(query)}
    THEN [name |-> "Paris", country |-> Str("France"), country_code |-> Str("FR")]
    ELSE [name |-> "Lyon", country |-> NoString, country_code |-> Str("FR")]

\* the record fetchLocation returns
LocationOf(r) ==
    [name |-> r.name,
     country |-> Coalesce(r.country, Coalesce(r.country_code, Str(""))).v]

NoLocation == [name |-> "", country |-> ""]

\* bodies of a response that is not ok: no message, or body.reason
ErrorBodies == {EmptyText, Text("i", "nvalid timezone")}

\* message of the Error fetchJson throws for a response that is not ok
FetchJsonMessage(body) ==
    IF body # EmptyText THEN CapitalizeFirstLetter(body)
    ELSE Text("S", "omething went wrong while loading the weather data.")

NotFoundMessage ==
    Text("C", "ity not found. Check the spelling or try another location.")
InvalidCityMessage ==
    Text("P", "lease enter a valid city name before searching.")
LoadingMessage == Text("L", "oading weather")
UpdatedMessage == Text("W", "eather updated")
TypeErrorMessage == Text("C", "annot read properties of undefined")
RangeErrorMessage == Text("I", "nvalid time value")

\* forecast.current_weather: missing, or with a time that parses or not
NoCurrent == [present |-> FALSE, timeParses |-> FALSE, age |-> 0,
              weathercode |-> Undefined, temperature |-> Undefined]
CurrentWeather(parses, c, t) ==
    [present |-> TRUE, timeParses |-> parses, age |-> -10 * 60000,
     weathercode |-> Num(c), temperature |-> Num(t)]

TwoDays(times) ==
    [time |-> Arr(times),
     weathercode |-> Arr(<<Num(3), Num(61)>>),
     temperature_2m_max |-> Arr(<<Num(10), Num(5)>>),
     temperature_2m_min |-> Arr(<<Num(2), Num(-1)>>)]

\* forecast payloads the service can answer with; hourlyIndex is
\* hourly.time.indexOf(current.time) and -1 when hourly.time is no array
ForecastPayloads ==
    {[current_weather |-> CurrentWeather(TRUE, 3, 12),
      hourlyTimeIsArray |-> TRUE, hourlyIndex |-> 1,
      apparent_temperature |-> Arr(<<Num(9), Num(11)>>),
      daily |-> TwoDays(<<DateOnly(1), DateOnly(2)>>)],
     [current_weather |-> CurrentWeather(TRUE, 0, 20),
      hourlyTimeIsArray |-> FALSE, hourlyIndex |-> -1,
      apparent_temperature |-> NotArray,
      daily |-> EmptyDaily],
     [current_weather |-> NoCurrent,
      hourlyTimeIsArray |-> TRUE, hourlyIndex |-> -1,
      apparent_temperature |-> NotArray,
      daily |-> TwoDays(<<DateOnly(1), DateOnly(2)>>)],
     [current_weather |-> NoCurrent,
      hourlyTimeIsArray |-> FALSE, hourlyIndex |-> -1,
      apparent_temperature |-> NotArray,
      daily |-> TwoDays(<<DateOnly(1), DateOnly(2)>>)],
     [current_weather |-> CurrentWeather(FALSE, 3, 12),
      hourlyTimeIsArray |-> FALSE, hourlyIndex |-> -1,
      apparent_temperature |-> NotArray,
      daily |-> TwoDays(<<DateOnly(1), DateOnly(2)>>)],
     [current_weather |-> CurrentWeather(TRUE, 3, 12),
      hourlyTimeIsArray |-> FALSE, hourlyIndex |-> -1,
      apparent_temperature |-> NotArray,
      daily |-> TwoDays(<<DateOnly(1), BadTime>>)]}

\* getHourlyValue(values, index)
GetHourlyValue(values, index) ==
    IF ~values.isArray \/ index < 0 \/ index >= Len(values.items)
    THEN Undefined
    ELSE values.items[index + 1]

\* renderCurrentWeather raises at current.time in line 163, before it has
\* written anything
RaisesBeforeCity(f) ==
    ~f.current_weather.present /\ f.hourlyTimeIsArray

\* renderCurrentWeather raises in line 167, after line 166 wrote the city:
\* current is undefined, or formatRelativeTime is handed an Invalid Date and
\* Intl.RelativeTimeFormat.format(NaN, "day") raises a RangeError
RaisesAfterCity(f) ==
    \/ ~f.current_weather.present /\ ~f.hourlyTimeIsArray
    \/ f.current_weather.present /\ ~f.current_weather.timeParses

CurrentErrorMessage(f) ==
    IF f.current_weather.present THEN RangeErrorMessage ELSE TypeErrorMessage

\* the nodes renderCurrentWeather writes from line 167 on
CurrentValues(f) ==
    LET current == f.current_weather
    IN [updated |-> FormatRelativeTime(current.age),
        icon |-> GetWeatherEmoji(current.weathercode),
        temperature |-> RoundValue(current.temperature),
        summary |-> GetWeatherDescription(current.weathercode),
        feelsLike |-> RoundValue(
            GetHourlyValue(f.apparent_temperature, f.hourlyIndex))]

NoValues ==
    [updated |-> [unit |-> "none", value |-> 0], icon |-> "",
     temperature |-> Undefined, summary |-> "", feelsLike |-> Undefined]

\* the page as index.html ships it; by names the search that wrote a part
InitialDisplay ==
    [city |-> [by |-> 0, location |-> NoLocation],
     current |-> [by |-> 0, values |-> NoValues],
     grid |-> [by |-> 0, cards |-> <<>>, placeholder |-> FALSE]]

\* idle values of the parts a specification does not drive
IdleSummary ==
    /\ daily = EmptyDaily
    /\ viewerTz = 0
    /\ utcOffset = 0
    /\ result = <<>>
    /\ grid = EmptyGrid

IdleRelative == diffInMs = 0 /\ relative = [unit |-> "none", value |-> 0]

IdleCondition == code = 0 /\ emoji = "" /\ description = ""

IdleApp ==
    /\ cityInput = <<>>
    /\ status = [text |-> EmptyText, error |-> FALSE, by |-> 0]
    /\ display = InitialDisplay
    /\ searches = <<>>

SetStatus(message, isError, s) ==
    status' = [text |-> message, error |-> isError, by |-> s]

NewSearch(q, stage, fetches) ==
    [query |-> q, stage |-> stage, location |-> NoLocation,
     fetches |-> fetches]

\* the script has run: the default city is in the input and its search
\* awaits the geocoding response
InitApp ==
    /\ phase = "app"
    /\ cityInput = <<"P">>
    /\ status = [text |-> LoadingMessage, error |-> FALSE, by |-> 1]
    /\ display = InitialDisplay
    /\ searches = <<NewSearch(<<"P">>, "geocoding", 1)>>
    /\ IdleSummary /\ IdleRelative /\ IdleCondition

\* the user types q and submits: clearStatus, then loadWeather(q) up to its
\* first await
Submit(q) ==
    /\ Len(searches) < MaxSearches
    /\ cityInput' = q
    /\ LET s == Len(searches) + 1
       IN IF Trim(q) = <<>>
          THEN /\ SetStatus(InvalidCityMessage, TRUE, s)
               /\ searches' = Append(searches, NewSearch(q, "rejected", 0))
          ELSE /\ SetStatus(LoadingMessage, FALSE, s)
               /\ searches' = Append(searches, NewSearch(q, "geocoding", 1))
    /\ UNCHANGED <<display, phase, sumVars, relVars, condVars>>

Fail(s, message) ==
    /\ searches' = [searches EXCEPT ![s].stage = "failed"]
    /\ SetStatus(message, TRUE, s)

\* the geocoding response of search s is not ok
GeocodingFails(s, body) ==
    /\ searches[s].stage = "geocoding"
    /\ Fail(s, FetchJsonMessage(body))
    /\ UNCHANGED <<cityInput, display, phase, sumVars, relVars, condVars>>

\* the geocoding response of search s has no results
GeocodingFindsNothing(s) ==
    /\ searches[s].stage = "geocoding"
    /\ Fail(s, NotFoundMessage)
    /\ UNCHANGED <<cityInput, display, phase, sumVars, relVars, condVars>>

\* the geocoding response of search s has a result: fetchForecast is called
GeocodingFinds(s) ==
    /\ searches[s].stage = "geocoding"
    /\ searches' = [searches EXCEPT
           ![s].stage = "forecast",
           ![s].location = LocationOf(GeocodingResult(Trim(searches[s].query))),
           ![s].fetches = @ + 1]
    /\ UNCHANGED <<cityInput, status, display, phase, sumVars, relVars, condVars>>

\* the forecast response of search s is not ok
ForecastFails(s, body) ==
    /\ searches[s].stage = "forecast"
    /\ Fail(s, FetchJsonMessage(body))
    /\ UNCHANGED <<cityInput, display, phase, sumVars, relVars, condVars>>

\* the forecast response of search s is payload f: renderCurrentWeather,
\* renderForecast and the closing setStatus, or the catch block
ForecastArrives(s, f) ==
    /\ searches[s].stage = "forecast"
    /\ LET city == [by |-> s, location |-> searches[s].location]
           current == [by |-> s, values |-> CurrentValues(f)]
       IN IF RaisesBeforeCity(f)
          THEN /\ display' = display
               /\ Fail(s, TypeErrorMessage)
          ELSE IF RaisesAfterCity(f)
          THEN /\ display' = [display EXCEPT !.city = city]
               /\ Fail(s, CurrentErrorMessage(f))
          ELSE \E days \in SummariseForecast(f.daily, viewerTz) :
                  LET g == RenderGrid(days, viewerTz)
                  IN /\ display' =
                            [city |-> city,
                             current |-> current,
                             grid |-> [by |-> s, cards |-> g.cards,
                                       placeholder |-> g.placeholder]]
                     /\ IF g.raised
                        THEN Fail(s, RangeErrorMessage)
                        ELSE /\ searches' =
                                    [searches EXCEPT ![s].stage = "rendered"]
                             /\ SetStatus(UpdatedMessage, FALSE, s)
    /\ UNCHANGED <<cityInput, phase, sumVars, relVars, condVars>>

NextApp ==
    \/ \E q \in Queries : Submit(q)
    \/ \E s \in 1..Len(searches), body \in ErrorBodies : GeocodingFails(s, body)
    \/ \E s \in 1..Len(searches) : GeocodingFindsNothing(s)
    \/ \E s \in 1..Len(searches) : GeocodingFinds(s)
    \/ \E s \in 1..Len(searches), body \in ErrorBodies : ForecastFails(s, body)
    \/ \E s \in 1..Len(searches), f \in ForecastPayloads : ForecastArrives(s, f)

SpecApp == InitApp /\ [][NextApp]_vars

Spec == SpecApp

----------------------------------------------------------------------------
(* Driver of summariseForecast *)

InitSummary ==
    /\ phase = "input"
    /\ daily \in DailyPayloads(SummaryTimes, MaxLen)
    /\ viewerTz \in ViewerOffsets
    /\ utcOffset = 0
    /\ result = <<>>
    /\ grid = EmptyGrid
    /\ IdleRelative /\ IdleCondition /\ IdleApp

Summarise ==
    /\ phase = "input"
    /\ result' \in SummariseForecast(daily, viewerTz)
    /\ phase' = "summarised"
    /\ UNCHANGED <<daily, viewerTz, utcOffset, grid, relVars, condVars, appVars>>

NextSummary == Summarise

SpecSummary == InitSummary /\ [][NextSummary]_vars

----------------------------------------------------------------------------
(* Driver of renderForecast *)

RenderTimes ==
    {DateOnly(1), DateOnly(2), LocalTime(2, 0), UtcTime(1, 16), BadTime}

LocationOffsets == {0, 9}

InitRender ==
    /\ phase = "input"
    /\ daily \in DailyPayloads(RenderTimes, MaxDays)
    /\ viewerTz \in ViewerOffsets
    /\ utcOffset \in LocationOffsets
    /\ result = <<>>
    /\ grid = EmptyGrid
    /\ IdleRelative /\ IdleCondition /\ IdleApp

\* renderForecast(forecast) with forecast.daily = daily
RenderForecast ==
    /\ phase = "input"
    /\ \E days \in SummariseForecast(daily, viewerTz) :
           /\ result' = days
           /\ grid' = RenderGrid(days, viewerTz)
    /\ phase' = "rendered"
    /\ UNCHANGED <<daily, viewerTz, utcOffset, relVars, condVars, appVars>>

NextRender == RenderForecast

SpecRender == InitRender /\ [][NextRender]_vars

----------------------------------------------------------------------------
(* Driver of getWeatherEmoji and getWeatherDescription *)

InitCondition ==
    /\ phase = "input"
    /\ code \in (-CodeRange..CodeRange) \cup {FarCode}
    /\ emoji = ""
    /\ description = ""
    /\ IdleSummary /\ IdleRelative /\ IdleApp

MapCode ==
    /\ phase = "input"
    /\ emoji' = GetWeatherEmoji(Num(code))
    /\ description' = GetWeatherDescription(Num(code))
    /\ phase' = "mapped"
    /\ UNCHANGED <<code, sumVars, relVars, appVars>>

NextCondition == MapCode

SpecCondition == InitCondition /\ [][NextCondition]_vars

----------------------------------------------------------------------------
(* Driver of formatRelativeTime *)

\* differences around zero and around every threshold, past and future
RelativeDiffs ==
    {sign * (base + k) :
        sign \in {-1, 1},
        base \in {0, 45 * 1000, 59 * 60000 + 30000, 60 * 60000,
                  23 * 3600000 + 1800000, 24 * 3600000, 36 * 3600000},
        k \in -RelSpread..RelSpread}

InitRelative ==
    /\ phase = "input"
    /\ diffInMs \in RelativeDiffs
    /\ relative = [unit |-> "none", value |-> 0]
    /\ IdleSummary /\ IdleCondition /\ IdleApp

FormatRelative ==
    /\ phase = "input"
    /\ relative' = FormatRelativeTime(diffInMs)
    /\ phase' = "formatted"
    /\ UNCHANGED <<diffInMs, sumVars, condVars, appVars>>

NextRelative == FormatRelative

SpecRelative == InitRelative /\ [][NextRelative]_vars

----------------------------------------------------------------------------
(* Claims about summariseForecast *)

Summarised == phase = "summarised"

TimeColumn == IF daily.time.isArray THEN daily.time.items ELSE <<>>

AllTimesParse == \A i \in 1..Len(TimeColumn) : TimeColumn[i].kind # "bad"

\* calendar day, in the browser's zone, of a valid Date
CalendarDay(date) == (date.t + viewerTz) \div 24

\* the field the claim expects at one-based position i of a payload column
ExpectedField(col, i) ==
    IF col.isArray /\ i <= Len(col.items) THEN col.items[i] ELSE Undefined

\* the instant the i-th timestamp denotes
ExpectedDate(i) ==
    LET time == TimeColumn[i]
    IN CASE time.kind = "date" -> Instant(24 * (time.day - 1))
         [] time.kind = "utc" -> Instant(24 * (time.day - 1) + time.hour)
         [] time.kind = "local" ->
                Instant(24 * (time.day - 1) + time.hour - viewerTz)
         [] OTHER -> InvalidDate

ExpectedEntry(i) ==
    [date |-> ExpectedDate(i),
     weathercode |-> ExpectedField(daily.weathercode, i),
     max |-> ExpectedField(daily.temperature_2m_max, i),
     min |-> ExpectedField(daily.temperature_2m_min, i)]

JsLessEq(a, b) == a.def /\ b.def /\ a.v <= b.v

\* C2 as stated: every summary has min <= max, whatever the payload
C2_MinLeMaxAlways ==
    Summarised =>
        \A k \in 1..Len(result) : JsLessEq(result[k].min, result[k].max)

\* the payload supplies both temperatures for every timestamp, ordered
PayloadOrdered ==
    \A i \in 1..Len(TimeColumn) :
        /\ ExpectedField(daily.temperature_2m_min, i).def
        /\ ExpectedField(daily.temperature_2m_max, i).def
        /\ ExpectedField(daily.temperature_2m_min, i).v
               <= ExpectedField(daily.temperature_2m_max, i).v

\* C2 amended: min <= max holds in every summary when the payload itself
\* supplies min[i] <= max[i] at every index of the time column
C2_MinLeMaxWhenPayloadOrdered ==
    (Summarised /\ PayloadOrdered) =>
        \A k \in 1..Len(result) :
            /\ result[k].min.def /\ result[k].max.def
            /\ result[k].min.v <= result[k].max.v

\* C2 witness: an ordered payload with differing min and max was summarised
C2_Witness ==
    /\ Summarised /\ PayloadOrdered
    /\ Len(result) >= 2
    /\ \E k \in 1..Len(result) : result[k].min.v < result[k].max.v

\* C3: summariseForecast returns a value for every payload, with exactly
\* one entry per element of the time column (none when time is no array),
\* and the entry of index i carries column[i], or nothing when the column
\* is missing, not an array or no longer than i: the result holds the
\* expected entries, each as often as the time column calls for it
C3_OneEntryPerTime ==
    /\ phase = "input" => SummariseForecast(daily, viewerTz) # {}
    /\ Summarised =>
        /\ Len(result) = IF daily.time.isArray THEN Len(daily.time.items) ELSE 0
        /\ LET expected == [i \in 1..Len(TimeColumn) |-> ExpectedEntry(i)]
           IN \A e \in {expected[i] : i \in 1..Len(expected)} :
                  Cardinality({k \in 1..Len(result) : result[k] = e})
                      = Cardinality({j \in 1..Len(expected) : expected[j] = e})

\* C3 witness: a value column shorter than the time column, yet not empty
C3_Witness ==
    /\ Summarised
    /\ Len(result) >= 2
    /\ \E k \in 1..Len(result) : ~result[k].max.def
    /\ \E k \in 1..Len(result) : result[k].max.def
    /\ \E k \in 1..Len(result) : ~result[k].date.valid

\* the scenario of C5: three samples, two of them on 2024-01-01
C5Scenario ==
    [time |-> Arr(<<LocalTime(1, 0), LocalTime(1, 12), LocalTime(2, 0)>>),
     weathercode |-> Arr(<<Num(3), Num(3), Num(0)>>),
     temperature_2m_max |-> Arr(<<Num(10), Num(10), Num(5)>>),
     temperature_2m_min |-> Arr(<<Num(2), Num(2), Num(-1)>>)]

Summaries(entries) ==
    [k \in 1..Len(entries) |->
        <<entries[k].min.v, entries[k].max.v, entries[k].weathercode.v>>]

----------------------------------------------------------------------------
(* Claims about the rendered weekday, the code tables and relative time *)

Rendered == phase = "rendered"

\* weekday of the calendar day an instant falls on at the forecast location
LocationWeekday(date) ==
    WeekdayNames[(((date.t + utcOffset) \div 24) % 7) + 1]

\* C4 as stated: the weekday label of every card after "Today" is that of
\* the entry's instant shifted by the location's offset, whatever the
\* browser's zone (2024-01-01T16:00Z at +9 h is a Tuesday, 2024-01-02)
C4_DayFromLocationOffset ==
    Rendered =>
        \A i \in 2..Len(grid.cards) :
            grid.cards[i].heading = LocationWeekday(result[i].date)

Formatted == phase = "formatted"

\* C7 as stated: the unit depends on the magnitude of the difference alone,
\* with thresholds 45 s, 60 min and 24 h
C7_UnitByMagnitude ==
    Formatted =>
        relative.unit =
            IF Abs(diffInMs) < 45000 THEN "just now"
            ELSE IF Abs(diffInMs) < 3600000 THEN "minute"
            ELSE IF Abs(diffInMs) < 86400000 THEN "hour"
            ELSE "day"

\* C7 amended: "just now" below 45 s of magnitude; else minutes when
\* -59.5 min <= d < 59.5 min; else hours when -23.5 h <= d < 23.5 h; else
\* days
C7_UnitByRoundedCount ==
    Formatted =>
        relative.unit =
            IF -45000 < diffInMs /\ diffInMs < 45000 THEN "just now"
            ELSE IF -3570000 <= diffInMs /\ diffInMs < 3570000 THEN "minute"
            ELSE IF -84600000 <= diffInMs /\ diffInMs < 84600000 THEN "hour"
            ELSE "day"

\* C7 witness: 59.5 minutes ahead has been formatted, in hours
C7_Witness ==
    Formatted /\ diffInMs = 3570000 /\ relative = [unit |-> "hour", value |-> 1]

Mapped == phase = "mapped"

\* C6: both mappings return a non-empty string for every code, and the
\* fallback emoji is returned exactly when the fallback description is
C6_TotalAndConsistent ==
    Mapped =>
        /\ emoji # ""
        /\ description # ""
        /\ (emoji = "cloud") <=> (description = "Unknown conditions")

\* C6 witness: the unmapped code 9999 received both fallbacks, or code 77
\* received neither
C6_Witness ==
    /\ Mapped
    /\ \/ code = FarCode /\ emoji = "cloud"
          /\ description = "Unknown conditions"
       \/ code = 77 /\ emoji = "snowflake" /\ description = "Snow grains"

----------------------------------------------------------------------------
(* Claims about the search workflow *)

\* a query that is empty or holds only whitespace
IsBlank(q) == \A i \in 1..Len(q) : q[i] = " "

Latest == Len(searches)

\* C8: submitting a blank query rejects the search at once: no request is
\* issued, the card and the grid stay as they are, the status is the error
\* message, and a rejected search never proceeds afterwards
C8_BlankSearchTouchesNothing ==
    [][/\ (Len(searches') = Len(searches) + 1 /\ IsBlank(cityInput')) =>
              /\ searches' = Append(searches,
                     [query |-> cityInput', stage |-> "rejected",
                      location |-> NoLocation, fetches |-> 0])
              /\ display' = display
              /\ status' = [text |-> InvalidCityMessage, error |-> TRUE,
                            by |-> Len(searches')]
       /\ \A s \in 1..Len(searches) :
              IsBlank(searches[s].query) => searches'[s] = searches[s]
      ]_vars

\* C8 witness: a whitespace-only query was rejected while the page shows
\* the weather of an earlier search
C8_Witness ==
    /\ Latest >= 2
    /\ searches[Latest].query = <<" ">>
    /\ searches[Latest].stage = "rejected"
    /\ status.by = Latest /\ status.error
    /\ display.city.by = 1 /\ display.current.by = 1 /\ display.grid.by = 1

AllFinished ==
    \A s \in 1..Len(searches) :
        searches[s].stage \in {"rejected", "rendered", "failed"}

\* C9 as stated: once every search has finished, what the page shows (city,
\* current conditions, grid, status) belongs to the most recently submitted
\* search, here one that rendered successfully
C9_LatestSearchWins ==
    (AllFinished /\ searches[Latest].stage = "rendered") =>
        /\ display.city.by = Latest
        /\ display.current.by = Latest
        /\ display.grid.by = Latest
        /\ status.by = Latest

\* C10 as stated: a step in which a search ends with an error status leaves
\* the current-conditions card and the forecast grid as they were
C10_FailedSearchKeepsDisplay ==
    [][\A s \in 1..Len(searches) :
           (searches[s].stage # "failed" /\ searches'[s].stage = "failed")
               => display' = display
      ]_vars

====
